---- MODULE Spec2Model ----
(***************************************************************************)
(* Model of registry-rs: Hive::new (src/hive.rs), the validator of the     *)
(* 512-byte header of a Windows registry hive, and main (src/main.rs),     *)
(* which maps its outcome to a process exit code.                          *)
(*                                                                         *)
(* A file is a sequence of bytes.  A u32 is kept as its two 16-bit halves  *)
(* [lo, hi] (value = lo + 65536 * hi), so that all 32 bits are modelled.   *)
(***************************************************************************)
EXTENDS Integers, Sequences, FiniteSets, TLC

VARIABLES file, twin, fault, argc, mpc, exit_code, run, run2

vars == <<file, twin, fault, argc, mpc, exit_code, run, run2>>

-----------------------------------------------------------------------------
(* Bounds of the input space *)

\* sequence-number fields take the low-byte values 0..MaxSeq
MaxSeq == 1
\* the variable body word takes the shapes BodyWord(0..MaxBody)
MaxBody == 1
\* a file has at most MaxTail bytes after the 512-byte header
MaxTail == 1
\* the I/O fault, when there is one, hits one of the first MaxFault operations
MaxFault == 8
\* main is started with 1..MaxArgc arguments (the program name included)
MaxArgc == 2

-----------------------------------------------------------------------------
(* Program constants *)

\* [0x72, 0x65, 0x67, 0x66], "regf"
actual_sig == <<114, 101, 103, 102>>
\* let mut header_raw = [0; 508]
HeaderRawLen == 508
\* the length of file_sig, primary, secondary and header_check
WordLen == 4
\* for _ in 0..127
NumWords == 127
\* StatusCodes::HivePathNotPassed = 1
HivePathNotPassed == 1
\* StatusCodes::HiveError, the discriminant after 1
HiveErrorCode == 2

HiveErrors == {"CannotOpenHive", "CannotReadData", "InvalidHive"}

-----------------------------------------------------------------------------
(* Arithmetic of the code *)

\* bitwise exclusive or of two naturals
RECURSIVE BitXor(_, _)
BitXor(a, b) ==
    IF a = 0 THEN b
    ELSE IF b = 0 THEN a
    ELSE (((a % 2) + (b % 2)) % 2) + 2 * BitXor(a \div 2, b \div 2)

\* a slip: xor = w for xor ^= w
XorU32_Assign(x, w) == [lo |-> w.lo, hi |-> w.hi]

\* xor ^= w on u32
XorU32(x, w) == [lo |-> BitXor(x.lo, w.lo), hi |-> BitXor(x.hi, w.hi)]

\* Cursor::read_u32::<LittleEndian>() at position p of buf: the word, or an
\* error when fewer than 4 bytes are left
ReadU32LE(buf, p) ==
    IF p + 4 <= Len(buf)
    THEN [ok |-> TRUE,
          val |-> [lo |-> buf[p + 1] + 256 * buf[p + 2],
                   hi |-> buf[p + 3] + 256 * buf[p + 4]]]
    ELSE [ok |-> FALSE, val |-> [lo |-> 0, hi |-> 0]]

\* the exclusive or that the rounds `xor ^= header_rdr.read_u32()` of the
\* words k * 2^lvl .. (k + 1) * 2^lvl - 1 accumulate, the loop stopping at
\* word 127.  (^ is associative: the rounds are folded by halves to keep the
\* evaluation shallow.)
RECURSIVE XorWords(_, _, _)
XorWords(buf, lvl, k) ==
    IF lvl = 0
    THEN IF k < NumWords THEN ReadU32LE(buf, 4 * k).val
         ELSE [lo |-> 0, hi |-> 0]
    ELSE XorU32(XorWords(buf, lvl - 1, 2 * k), XorWords(buf, lvl - 1, 2 * k + 1))

\* the loop `for _ in 0..127 { xor ^= try!(header_rdr.read_u32()) }` from
\* xor = 0: a round fails when fewer than 4 bytes are left in the cursor,
\* that is when buf is shorter than the 127 words
XorLoop(buf) ==
    IF ReadU32LE(buf, 4 * (NumWords - 1)).ok
    THEN [ok |-> TRUE, val |-> XorWords(buf, 7, 0)]
    ELSE [ok |-> FALSE, val |-> [lo |-> 0, hi |-> 0]]

-----------------------------------------------------------------------------
(* The file handle *)

\* the I/O operation s is about to make is the one the device fails on
Faulty(s) == Len(s.ops) + 1 = fault

\* reg_file.read_exact(&mut buf) with buf of n bytes, on the content f
ReadExact(f, s, n) ==
    IF Faulty(s) THEN [ok |-> FALSE, buf |-> <<>>, pos |-> s.pos]
    ELSE IF s.pos + n <= Len(f)
    THEN [ok |-> TRUE, buf |-> SubSeq(f, s.pos + 1, s.pos + n), pos |-> s.pos + n]
    ELSE [ok |-> FALSE, buf |-> <<>>, pos |-> Len(f)]

Zeros(n) == [i \in 1..n |-> 0]

\* the locals of Hive::new before its first statement; ops lists the calls
\* made on the file so far and checks the comparisons that passed
NewCall ==
    [pc |-> "open", open |-> FALSE, pos |-> 0, ops |-> <<>>, checks |-> <<>>,
     file_sig |-> Zeros(WordLen), primary |-> Zeros(WordLen),
     secondary |-> Zeros(WordLen), header_raw |-> <<>>,
     header_check |-> Zeros(WordLen),
     xor |-> [lo |-> 0, hi |-> 0], csum |-> [lo |-> 0, hi |-> 0],
     result |-> "none"]

\* return Err(e): the handle is dropped with the frame
Fail(s, e) == [s EXCEPT !.pc = "done", !.result = e, !.open = FALSE]

\* a slip: the failed read is reported as InvalidHive
ReadFail_Invalid(s, op, p) ==
    [Fail(s, "InvalidHive") EXCEPT !.ops = Append(s.ops, op), !.pos = p]

\* a failed try!(...map_err(HiveError::CannotReadData)) of operation op
ReadFail(s, op, p) ==
    [Fail(s, "CannotReadData") EXCEPT !.ops = Append(s.ops, op), !.pos = p]

-----------------------------------------------------------------------------
(* The statements of Hive::new, each as a function of the call's state s    *)
(* and the content f of the file at the path                                *)

\* try!(File::open(path.as_ref()).map_err(HiveError::CannotOpenHive))
DoOpen(f, s) ==
    IF Faulty(s)
    THEN [Fail(s, "CannotOpenHive") EXCEPT !.ops = Append(s.ops, "open")]
    ELSE [s EXCEPT !.pc = "read_sig", !.open = TRUE, !.pos = 0,
                   !.ops = Append(s.ops, "open")]

\* try!(reg_file.read_exact(&mut file_sig)...)
DoReadSig(f, s) ==
    LET r == ReadExact(f, s, WordLen)
    IN  IF r.ok
        THEN [s EXCEPT !.pc = "check_sig", !.file_sig = r.buf, !.pos = r.pos,
                       !.ops = Append(s.ops, "read")]
        ELSE ReadFail(s, "read", r.pos)

\* a slip: only the first byte of the signature is compared
DoCheckSig_FirstByte(f, s) ==
    IF s.file_sig[1] # actual_sig[1] THEN Fail(s, "InvalidHive")
    ELSE [s EXCEPT !.pc = "read_primary",
                   !.checks = Append(s.checks, "signature")]

\* a slip: a good signature sends the call past the sequence numbers
DoCheckSig_SkipSeq(f, s) ==
    IF s.file_sig # actual_sig THEN Fail(s, "InvalidHive")
    ELSE [s EXCEPT !.pc = "seek_start",
                   !.checks = Append(s.checks, "signature")]

\* if !file_sig.eq(&actual_sig) { return Err(HiveError::InvalidHive); }
DoCheckSig(f, s) ==
    IF s.file_sig # actual_sig THEN Fail(s, "InvalidHive")
    ELSE [s EXCEPT !.pc = "read_primary",
                   !.checks = Append(s.checks, "signature")]

\* try!(reg_file.read_exact(&mut primary)...)
DoReadPrimary(f, s) ==
    LET r == ReadExact(f, s, WordLen)
    IN  IF r.ok
        THEN [s EXCEPT !.pc = "read_secondary", !.primary = r.buf,
                       !.pos = r.pos, !.ops = Append(s.ops, "read")]
        ELSE ReadFail(s, "read", r.pos)

\* try!(reg_file.read_exact(&mut secondary)...)
DoReadSecondary(f, s) ==
    LET r == ReadExact(f, s, WordLen)
    IN  IF r.ok
        THEN [s EXCEPT !.pc = "check_seq", !.secondary = r.buf,
                       !.pos = r.pos, !.ops = Append(s.ops, "read")]
        ELSE ReadFail(s, "read", r.pos)

\* a slip: the comparison of the sequence numbers is lost
DoCheckSeq_Skip(f, s) ==
    [s EXCEPT !.pc = "seek_start", !.checks = Append(s.checks, "sequence")]

\* a slip: only the last byte of the sequence numbers is compared
DoCheckSeq_LastByte(f, s) ==
    IF s.primary[4] # s.secondary[4] THEN Fail(s, "InvalidHive")
    ELSE [s EXCEPT !.pc = "seek_start",
                   !.checks = Append(s.checks, "sequence")]

\* if !primary.eq(&secondary) { return Err(HiveError::InvalidHive); }
DoCheckSeq(f, s) ==
    IF s.primary # s.secondary THEN Fail(s, "InvalidHive")
    ELSE [s EXCEPT !.pc = "seek_start",
                   !.checks = Append(s.checks, "sequence")]

\* try!(reg_file.seek(SeekFrom::Start(0))...) before the checksum pass
DoSeekStart(f, s) ==
    IF Faulty(s) THEN ReadFail(s, "seek", s.pos)
    ELSE [s EXCEPT !.pc = "read_header_raw", !.pos = 0,
                   !.ops = Append(s.ops, "seek")]

\* try!(reg_file.read_exact(&mut header_raw)...)
DoReadHeaderRaw(f, s) ==
    LET r == ReadExact(f, s, HeaderRawLen)
    IN  IF r.ok
        THEN [s EXCEPT !.pc = "read_header_check", !.header_raw = r.buf,
                       !.pos = r.pos, !.ops = Append(s.ops, "read")]
        ELSE ReadFail(s, "read", r.pos)

\* a slip: header_check is a byte too long
DoReadHeaderCheck_Five(f, s) ==
    LET r == ReadExact(f, s, WordLen + 1)
    IN  IF r.ok
        THEN [s EXCEPT !.pc = "xor_loop", !.header_check = r.buf,
                       !.pos = r.pos, !.ops = Append(s.ops, "read")]
        ELSE ReadFail(s, "read", r.pos)

\* try!(reg_file.read_exact(&mut header_check)...)
DoReadHeaderCheck(f, s) ==
    LET r == ReadExact(f, s, WordLen)
    IN  IF r.ok
        THEN [s EXCEPT !.pc = "xor_loop", !.header_check = r.buf,
                       !.pos = r.pos, !.ops = Append(s.ops, "read")]
        ELSE ReadFail(s, "read", r.pos)

\* csum = check_rdr.read_u32().unwrap(), then the 127 rounds of the loop
DoXorLoop(f, s) ==
    LET c == ReadU32LE(s.header_check, 0)
        x == XorLoop(s.header_raw)
    IN  IF x.ok
        THEN [s EXCEPT !.pc = "check_xor", !.csum = c.val, !.xor = x.val]
        ELSE Fail([s EXCEPT !.csum = c.val, !.xor = x.val], "CannotReadData")

\* a slip: the checksum is compared as a 16-bit value
DoCheckXor_LoOnly(f, s) ==
    IF s.xor.lo # s.csum.lo THEN Fail(s, "InvalidHive")
    ELSE [s EXCEPT !.pc = "rewind",
                   !.checks = Append(s.checks, "checksum")]

\* if xor != csum { return Err(HiveError::InvalidHive); }
DoCheckXor(f, s) ==
    IF s.xor # s.csum THEN Fail(s, "InvalidHive")
    ELSE [s EXCEPT !.pc = "rewind",
                   !.checks = Append(s.checks, "checksum")]

\* a slip: the handle is returned where the checksum pass left it
DoRewind_NoSeek(f, s) ==
    [s EXCEPT !.pc = "done", !.result = "Ok"]

\* try!(reg_file.seek(SeekFrom::Start(0))...); Ok(Hive {f: reg_file})
DoRewind(f, s) ==
    IF Faulty(s) THEN ReadFail(s, "seek", s.pos)
    ELSE [s EXCEPT !.pc = "done", !.result = "Ok", !.pos = 0,
                   !.ops = Append(s.ops, "seek")]

\* the statement of Hive::new at s.pc
HiveNewStep(f, s) ==
    CASE s.pc = "open" -> DoOpen(f, s)
      [] s.pc = "read_sig" -> DoReadSig(f, s)
      [] s.pc = "check_sig" -> DoCheckSig(f, s)
      [] s.pc = "read_primary" -> DoReadPrimary(f, s)
      [] s.pc = "read_secondary" -> DoReadSecondary(f, s)
      [] s.pc = "check_seq" -> DoCheckSeq(f, s)
      [] s.pc = "seek_start" -> DoSeekStart(f, s)
      [] s.pc = "read_header_raw" -> DoReadHeaderRaw(f, s)
      [] s.pc = "read_header_check" -> DoReadHeaderCheck(f, s)
      [] s.pc = "xor_loop" -> DoXorLoop(f, s)
      [] s.pc = "check_xor" -> DoCheckXor(f, s)
      [] s.pc = "rewind" -> DoRewind(f, s)
      [] OTHER -> s

\* Hive::new run from s to its return
RECURSIVE HiveNew(_, _)
HiveNew(f, s) == IF s.pc = "done" THEN s ELSE HiveNew(f, HiveNewStep(f, s))

-----------------------------------------------------------------------------
(* The files the model is run on *)

\* exclusive or of byte j (1..4) of the words a..b-1 of b
RECURSIVE Lane(_, _, _, _)
Lane(buf, j, a, b) ==
    IF b - a = 1 THEN buf[4 * a + j]
    ELSE LET m == (a + b) \div 2
         IN  BitXor(Lane(buf, j, a, m), Lane(buf, j, m, b))

\* bytewise exclusive or of the 127 4-byte words of buf, the checksum a
\* well-formed header carries at offset 508
LaneFold(buf) == [j \in 1..4 |-> Lane(buf, j, 0, 127)]

\* the signature field: the magic, or the magic with one byte cleared
Signatures == {actual_sig} \cup {[actual_sig EXCEPT ![i] = 0] : i \in 1..4}

SeqNums == {<<v, 0, 0, 0>> : v \in 0..MaxSeq}

\* shapes of the word at offset 500: zero, then words with high bits set
BodyWord(k) == <<k % 256, (128 * k) % 256, (255 * k) % 256, (255 * k) % 256>>

\* bytes 0..508 of a header
Bodies ==
    {sg \o p \o s \o Zeros(488) \o BodyWord(k) \o Zeros(4) :
        sg \in Signatures, p \in SeqNums, s \in SeqNums, k \in 0..MaxBody}

\* a whole 512-byte header: the checksum is 0, 1, right, or right but for its
\* top byte
Headers ==
    {b \o c : b \in Bodies, c \in {<<0, 0, 0, 0>>, <<1, 0, 0, 0>>}}
    \cup {b \o LaneFold(b) : b \in Bodies}
    \cup {b \o [LaneFold(b) EXCEPT ![4] = 255 - @] : b \in Bodies}

\* what follows the header
Tails == {[i \in 1..n |-> 255] : n \in 0..MaxTail}

\* lengths of truncated files, around each read's end
ShortLens == {0, 3, 4, 7, 8, 11, 12, 507, 508, 511}

Files ==
    {SubSeq(h, 1, n) : h \in Headers, n \in ShortLens}
    \cup {h \o t : h \in Headers, t \in Tails}

\* f and g agree on every byte they have in offsets 0..512, and are both at
\* least 512 bytes long or of the same length
AgreeOnHeader(f, g) ==
    /\ \/ Len(f) >= 512 /\ Len(g) >= 512
       \/ Len(f) = Len(g)
    /\ \A i \in 1..512 : (i <= Len(f) /\ i <= Len(g)) => f[i] = g[i]

-----------------------------------------------------------------------------
(* The program *)

Init ==
    /\ file \in Files
    /\ twin \in {g \in Files : AgreeOnHeader(file, g)}
    /\ fault \in 0..MaxFault
    /\ argc \in 1..MaxArgc
    /\ mpc = "args"
    /\ exit_code = -1
    /\ run = NewCall
    /\ run2 = NewCall

\* main: if env::args().len() < 2 { ...; process::exit(1) }
MainArgs ==
    /\ mpc = "args"
    /\ IF argc < 2
       THEN mpc' = "exit" /\ exit_code' = HivePathNotPassed
       ELSE mpc' = "call" /\ exit_code' = exit_code
    /\ UNCHANGED <<file, twin, fault, argc, run, run2>>

\* Hive::new called by main: let mut reg_file = try!(File::open(..))
Open ==
    /\ mpc = "call"
    /\ run.pc = "open"
    /\ run' = DoOpen(file, run)
    /\ UNCHANGED <<file, twin, fault, argc, mpc, exit_code, run2>>

\* Hive::new called by main: reads file_sig
ReadSig ==
    /\ mpc = "call"
    /\ run.pc = "read_sig"
    /\ run' = DoReadSig(file, run)
    /\ UNCHANGED <<file, twin, fault, argc, mpc, exit_code, run2>>

\* Hive::new called by main: compares file_sig with actual_sig
CheckSig ==
    /\ mpc = "call"
    /\ run.pc = "check_sig"
    /\ run' = DoCheckSig(file, run)
    /\ UNCHANGED <<file, twin, fault, argc, mpc, exit_code, run2>>

\* Hive::new called by main: reads primary
ReadPrimary ==
    /\ mpc = "call"
    /\ run.pc = "read_primary"
    /\ run' = DoReadPrimary(file, run)
    /\ UNCHANGED <<file, twin, fault, argc, mpc, exit_code, run2>>

\* Hive::new called by main: reads secondary
ReadSecondary ==
    /\ mpc = "call"
    /\ run.pc = "read_secondary"
    /\ run' = DoReadSecondary(file, run)
    /\ UNCHANGED <<file, twin, fault, argc, mpc, exit_code, run2>>

\* Hive::new called by main: compares primary with secondary
CheckSeq ==
    /\ mpc = "call"
    /\ run.pc = "check_seq"
    /\ run' = DoCheckSeq(file, run)
    /\ UNCHANGED <<file, twin, fault, argc, mpc, exit_code, run2>>

\* Hive::new called by main: seeks to the start for the checksum pass
SeekStart ==
    /\ mpc = "call"
    /\ run.pc = "seek_start"
    /\ run' = DoSeekStart(file, run)
    /\ UNCHANGED <<file, twin, fault, argc, mpc, exit_code, run2>>

\* Hive::new called by main: reads header_raw
ReadHeaderRaw ==
    /\ mpc = "call"
    /\ run.pc = "read_header_raw"
    /\ run' = DoReadHeaderRaw(file, run)
    /\ UNCHANGED <<file, twin, fault, argc, mpc, exit_code, run2>>

\* Hive::new called by main: reads header_check
ReadHeaderCheck ==
    /\ mpc = "call"
    /\ run.pc = "read_header_check"
    /\ run' = DoReadHeaderCheck(file, run)
    /\ UNCHANGED <<file, twin, fault, argc, mpc, exit_code, run2>>

\* Hive::new called by main: decodes csum and folds header_raw
XorRounds ==
    /\ mpc = "call"
    /\ run.pc = "xor_loop"
    /\ run' = DoXorLoop(file, run)
    /\ UNCHANGED <<file, twin, fault, argc, mpc, exit_code, run2>>

\* Hive::new called by main: compares xor with csum
CheckXor ==
    /\ mpc = "call"
    /\ run.pc = "check_xor"
    /\ run' = DoCheckXor(file, run)
    /\ UNCHANGED <<file, twin, fault, argc, mpc, exit_code, run2>>

\* Hive::new called by main: seeks to the start and returns Ok(Hive)
Rewind ==
    /\ mpc = "call"
    /\ run.pc = "rewind"
    /\ run' = DoRewind(file, run)
    /\ UNCHANGED <<file, twin, fault, argc, mpc, exit_code, run2>>

\* a slip: an error of Hive::new exits with the code of the missing argument
MainMatch_One ==
    /\ mpc = "call"
    /\ run.pc = "done"
    /\ mpc' = "exit"
    /\ exit_code' = IF run.result \in HiveErrors THEN HivePathNotPassed ELSE 0
    /\ UNCHANGED <<file, twin, fault, argc, run, run2>>

\* main: match hive::Hive::new(..) { Err(why) => exit(2), Ok(hive) => hive }
MainMatch ==
    /\ mpc = "call"
    /\ run.pc = "done"
    /\ mpc' = "exit"
    /\ exit_code' = IF run.result \in HiveErrors THEN HiveErrorCode ELSE 0
    /\ UNCHANGED <<file, twin, fault, argc, run, run2>>

\* a second call of Hive::new, on the path of twin
SecondCall ==
    /\ mpc = "exit"
    /\ run.pc = "done"
    /\ run2.pc # "done"
    /\ run2' = HiveNew(twin, run2)
    /\ UNCHANGED <<file, twin, fault, argc, mpc, exit_code, run>>

Next ==
    \/ MainArgs
    \/ Open \/ ReadSig \/ CheckSig
    \/ ReadPrimary \/ ReadSecondary \/ CheckSeq
    \/ SeekStart \/ ReadHeaderRaw \/ ReadHeaderCheck
    \/ XorRounds \/ CheckXor \/ Rewind
    \/ MainMatch
    \/ SecondCall

Spec == Init /\ [][Next]_vars

-----------------------------------------------------------------------------
(* Vocabulary of the properties *)

\* the magic {0x72, 0x65, 0x67, 0x66}
Magic == <<114, 101, 103, 102>>

\* bytes[a..b] of f
Bytes(f, a, b) == SubSeq(f, a + 1, b)

\* f is read as a buffer: its reads and seeks fail only by running out of bytes
Buffer == fault = 0

Returned(s) == s.pc = "done"

SignatureOK(f) == Len(f) >= 4 /\ Bytes(f, 0, 4) = Magic
SequenceOK(f) == Len(f) >= 12 /\ Bytes(f, 4, 8) = Bytes(f, 8, 12)
\* two little-endian u32 are equal exactly when their 4 bytes are, and the
\* xor of words is the xor of their bytes, lane by lane
ChecksumOK(f) == Len(f) >= 512 /\ Bytes(f, 508, 512) = LaneFold(Bytes(f, 0, 508))

\* the stage of the spec's state machine a call is in
Stage(s) ==
    CASE s.result \in HiveErrors -> "Failed"
      [] s.result = "Ok" -> "Validated"
      [] s.pc = "open" -> "Unopened"
      [] s.pc \in {"read_sig", "check_sig"} -> "Opened"
      [] s.pc \in {"read_primary", "read_secondary", "check_seq"} ->
            "SignatureChecked"
      [] s.pc \in {"seek_start", "read_header_raw", "read_header_check",
                   "xor_loop", "check_xor"} -> "SequenceChecked"
      [] s.pc = "rewind" -> "ChecksumChecked"

StageOrder ==
    <<"Unopened", "Opened", "SignatureChecked", "SequenceChecked",
      "ChecksumChecked", "Validated">>

StageIndex(st) == CHOOSE i \in 1..6 : StageOrder[i] = st

\* scenario A: 512 zero bytes but for the signature
ScenarioA == Magic \o Zeros(508)
\* scenario A with the checksum word 0x66676572, the fold of its 127 words
ScenarioAFolded == Magic \o Zeros(504) \o Magic
\* scenario B: A with secondary_sequence = 1
ScenarioB == Magic \o Zeros(4) \o <<1, 0, 0, 0>> \o Zeros(500)
\* scenario C: A with the checksum word 1
ScenarioC == Magic \o Zeros(504) \o <<1, 0, 0, 0>>

-----------------------------------------------------------------------------
(* C1 *)

\* C1: Hive::new returns Ok only if the three checks passed on the file it
\* read: the result is Ok only when bytes[0..4] are the magic, bytes[4..8]
\* equal bytes[8..12] and the checksum word at 508 is the fold of the 127
\* words before it, and only after each of the three comparisons ran and
\* passed, in order.
C1_OkOnlyIfAllChecks ==
    run.result = "Ok" =>
        /\ SignatureOK(file)
        /\ SequenceOK(file)
        /\ ChecksumOK(file)
        /\ run.checks = <<"signature", "sequence", "checksum">>

C1_Witness == run.result = "Ok" /\ Len(file) > 512

-----------------------------------------------------------------------------
(* C2 *)

\* C2 as stated: a buffer shorter than 512 bytes, or a path that cannot be
\* opened, always ends in CannotOpenHive or CannotReadData.
C2_Original ==
    (Returned(run) /\ (Len(file) < 512 \/ fault = 1)) =>
        run.result \in {"CannotOpenHive", "CannotReadData"}

\* a short buffer on which a comparison fails before the missing bytes are
\* asked for
ShortStructuralFailure(f) ==
    \/ Len(f) >= 4 /\ ~SignatureOK(f)
    \/ Len(f) >= 12 /\ SignatureOK(f) /\ ~SequenceOK(f)

\* C2 amended: a path that cannot be opened fails with CannotOpenHive; a
\* buffer shorter than 512 bytes never validates: it fails with InvalidHive
\* when it has 4 bytes and a wrong signature or 12 bytes, the right signature
\* and unequal sequence numbers, and with CannotReadData otherwise.
C2_ShortNeverValid ==
    (Returned(run) /\ (Len(file) < 512 \/ fault = 1)) =>
        /\ run.result \in HiveErrors
        /\ fault = 1 => run.result = "CannotOpenHive"
        /\ (Buffer /\ ShortStructuralFailure(file)) => run.result = "InvalidHive"
        /\ (Buffer /\ ~ShortStructuralFailure(file)) =>
                run.result = "CannotReadData"
        /\ run.result = "InvalidHive" => ShortStructuralFailure(file)
        /\ Len(file) < 4 => run.checks = <<>>

C2_Witness ==
    /\ Returned(run) /\ Buffer /\ Len(file) = 3
    /\ run.result = "CannotReadData"

-----------------------------------------------------------------------------
(* C3 *)

\* C3 as stated: scenario A, whose checksum word is 0, validates.
C3_Original ==
    (file = ScenarioA /\ Buffer /\ Returned(run)) => run.result = "Ok"

\* C3 amended: scenario A with the checksum word 0x66676572 (the fold of its
\* 127 words, the first of which is the signature) validates; with the
\* checksum word 0 it fails with InvalidHive.
C3_ScenarioA ==
    /\ (file = ScenarioAFolded /\ Buffer /\ Returned(run)) => run.result = "Ok"
    /\ (file = ScenarioA /\ Buffer /\ Returned(run)) =>
            run.result = "InvalidHive"

C3_Witness == file = ScenarioAFolded /\ Buffer /\ Returned(run)

-----------------------------------------------------------------------------
(* C4 *)

\* C4: a buffer whose bytes[0..4] differ from the magic in at least one byte
\* fails with InvalidHive, whatever its other bytes and however many follow.
C4_BadSignature ==
    (Buffer /\ Returned(run) /\ Len(file) >= 4 /\ Bytes(file, 0, 4) # Magic) =>
        run.result = "InvalidHive"

C4_Witness ==
    /\ Buffer /\ Returned(run) /\ Len(file) = 512
    /\ Bytes(file, 0, 4) = <<114, 101, 103, 0>>
    /\ SequenceOK(file) /\ ChecksumOK(file)

-----------------------------------------------------------------------------
(* C5 *)

\* C5: a buffer with the right signature whose bytes[4..8] differ from
\* bytes[8..12] fails with InvalidHive, whatever the checksum word and the
\* rest hold; scenario B is one.
C5_BadSequence ==
    /\ (Buffer /\ Returned(run) /\ SignatureOK(file) /\ Len(file) >= 12
          /\ Bytes(file, 4, 8) # Bytes(file, 8, 12)) =>
            run.result = "InvalidHive"
    /\ (Buffer /\ Returned(run) /\ file = ScenarioB) =>
            run.result = "InvalidHive"

C5_Witness ==
    /\ Buffer /\ Returned(run) /\ SignatureOK(file) /\ ChecksumOK(file)
    /\ Bytes(file, 4, 8) # Bytes(file, 8, 12)

-----------------------------------------------------------------------------
(* C6 *)

\* C6: a buffer with the right signature and equal sequence numbers whose
\* word at offset 508 is not the fold of the 127 words at 0..508 fails with
\* InvalidHive; scenario C is one.
C6_BadChecksum ==
    (Buffer /\ Returned(run) /\ Len(file) >= 512 /\ SignatureOK(file)
       /\ SequenceOK(file) /\ ~ChecksumOK(file)) =>
        run.result = "InvalidHive"

C6_Witness ==
    /\ Buffer /\ Returned(run) /\ SignatureOK(file) /\ SequenceOK(file)
    /\ Len(file) >= 512
    /\ Bytes(file, 508, 511) = Bytes(LaneFold(Bytes(file, 0, 508)), 0, 3)
    /\ ~ChecksumOK(file)

-----------------------------------------------------------------------------
(* C7 *)

\* C7: a buffer passing the three checks validates, the handle returned is
\* open at offset 0 and its next read returns the bytes from offset 0, though
\* the checksum pass left the position at 512.
C7_Rewound ==
    /\ (Buffer /\ Returned(run) /\ SignatureOK(file) /\ SequenceOK(file)
          /\ ChecksumOK(file)) =>
            /\ run.result = "Ok"
            /\ run.open /\ run.pos = 0
            /\ \A n \in {1, 4, 512} :
                  LET r == ReadExact(file, run, n)
                  IN  r.ok /\ r.buf = Bytes(file, 0, n)
    /\ run.pc \in {"xor_loop", "check_xor", "rewind"} => run.pos = 512

C7_Witness == run.result = "Ok" /\ run.pos = 0 /\ Buffer /\ Len(file) = 512

-----------------------------------------------------------------------------
(* C8 *)

Terminal == {"Failed", "Validated"}

\* the statements of Hive::new in program order
Statements ==
    <<"open", "read_sig", "check_sig", "read_primary", "read_secondary",
      "check_seq", "seek_start", "read_header_raw", "read_header_check",
      "xor_loop", "check_xor", "rewind", "done">>

Position(s) == CHOOSE i \in 1..Len(Statements) : Statements[i] = s.pc

\* a step of the program leaves the call of main alone or moves it forward
\* in the program, within its stage, to the next stage of StageOrder, or to
\* Failed; from Failed or Validated it changes nothing of the call (no read,
\* seek or check)
StageStep ==
    LET a == Stage(run)
        b == Stage(run')
    IN  IF a \in Terminal \/ run' = run THEN run' = run
        ELSE /\ Position(run') > Position(run)
             /\ \/ b = a
                \/ b = "Failed"
                \/ b # "Failed" /\ StageIndex(b) = StageIndex(a) + 1

\* a call is over exactly in the stages Failed and Validated, main goes on
\* only when it is over, and a call that has begun and is not over is at one
\* of the 12 statements
StageEnds ==
    /\ Returned(run) <=> Stage(run) \in Terminal
    /\ (mpc = "exit" /\ argc >= 2) => Stage(run) \in Terminal
    /\ (mpc = "call" /\ ~Returned(run)) => Position(run) \in 1..12
    /\ Stage(run) = "Failed" => run.result \in HiveErrors /\ ~run.open
    /\ Stage(run) = "Validated" => run.result = "Ok" /\ run.open

\* C8: a validation run goes through Unopened, Opened, SignatureChecked,
\* SequenceChecked, ChecksumChecked, Validated in that order, skipping and
\* revisiting none; the first failing step sends it to Failed, after which
\* no read, seek or check is made; every run ends in exactly one of Failed
\* and Validated (each step moves it forward among the 12 statements, and it
\* is over only in one of the two).
C8_Stages == [][StageStep]_vars /\ []StageEnds

C8_Witness ==
    /\ Stage(run) = "Failed" /\ run.result = "InvalidHive"
    /\ run.checks = <<"signature", "sequence">>
    /\ run.ops = <<"open", "read", "read", "read", "seek", "read", "read">>

-----------------------------------------------------------------------------
(* C9 *)

\* C9: main exits with 1 when no path argument is passed, without calling
\* Hive::new; with 2 when Hive::new returns any HiveError; with 0 when it
\* returns a Hive.
C9_ExitCodes ==
    /\ mpc # "exit" => exit_code = -1
    /\ argc < 2 => run = NewCall
    /\ mpc = "exit" =>
        /\ argc < 2 => exit_code = 1
        /\ (argc >= 2 /\ run.result \in HiveErrors) => exit_code = 2
        /\ (argc >= 2 /\ run.result = "Ok") => exit_code = 0
        /\ argc >= 2 => Returned(run)

C9_Witness == mpc = "exit" /\ exit_code = 2 /\ run.result = "InvalidHive"

-----------------------------------------------------------------------------
(* C10 *)

\* C10: no read reaches past offset 512, and two openable files that agree on
\* every byte they have in offsets 0..512 (both at least 512 bytes long, or
\* of the same length) get the same kind of result.
C10_HeaderOnly ==
    /\ run.pos <= 512 /\ run2.pos <= 512
    /\ (Returned(run) /\ Returned(run2) /\ fault # 1
          /\ AgreeOnHeader(file, twin)) => run.result = run2.result

C10_Witness ==
    /\ Returned(run) /\ Returned(run2) /\ Buffer
    /\ Len(file) = 512 /\ Len(twin) = 513 /\ run2.result = "Ok"

====
